---- MODULE Spec2Model ----
(***************************************************************************)
(* The market-data relay of src/proxy/proxy.js: one upstream socket to the *)
(* data provider (fyersWS), a registry of downstream consumers             *)
(* (clientSockets), the subscribe/unsubscribe command handler and the      *)
(* tick / connection-lost fan-out.                                         *)
(*                                                                         *)
(* Sockets are objects of the "ws" library.  A socket's readyState moves   *)
(* CONNECTING -> OPEN -> CLOSING -> CLOSED (or CONNECTING -> CLOSING ->    *)
(* CLOSED when the handshake fails); the library sets CLOSING when the     *)
(* close handshake starts or an error is detected and emits the 'close'    *)
(* event later, from another turn of the event loop, so handlers of other  *)
(* sockets can run in between.  An 'error' event is always followed by a   *)
(* 'close' event.  send() on a socket that is CLOSING or CLOSED discards   *)
(* the data and does not throw (ws 7 and later).                           *)
(*                                                                         *)
(* Every action is one run of one event handler.  The variables event,     *)
(* sent and wire describe the latest run: the event it handled, the send() *)
(* calls it made on consumers and the control frames it sent upstream.     *)
(*                                                                         *)
(* POST /direct-login (proxy.js:42-112) is an async handler: it runs up to *)
(* the first await, and then once for every response of the provider.  The *)
(* variables http and reply hold the requests the latest run issued to the *)
(* provider and the response it gave its caller.  Spec is the streaming    *)
(* path, LoginSpec the login handler; FYERS_APP_ID and FYERS_SECRET_KEY    *)
(* are set in both.                                                        *)
(***************************************************************************)
EXTENDS Integers, Sequences, FiniteSets, TLC

\* ---- bounds of the model ----
MaxSockets == 2     \* upstream sockets created in one run
MaxConsumers == 2   \* downstream connections accepted in one run
MaxPending == 2     \* once('open') listeners waiting on one upstream socket
MaxLogins == 2      \* calls of POST /direct-login in one run
MaxFrames == 2      \* upstream frames kept in the history of OrderSpec
MaxHookSockets == 3 \* relay sockets the hook creates in one run
MaxTicks == 202     \* tick envelopes the hook handles after one 'open'
MaxInputTicks == 2  \* ticks passed to one call of getGeminiAnalysis

Consumers == 1..MaxConsumers   \* numbered in the order they connect
Sockets == 1..MaxSockets       \* numbered in the order they are created
Instruments == {"NSE:SBIN-EQ", "NSE:TCS-EQ"}
Tokens == {"tok123"}
Ticks == {512, 513}               \* ltp of a decodable frame
NoToken == "null"              \* absent accessToken / fyersAccessToken = null
NoInstrument == ""
Null == 0
NoSocket == Null               \* fyersWS = null
NoConsumer == Null             \* an event that comes from no consumer
Logins == 1..MaxLogins         \* login calls, numbered in the order they arrive
Stages == <<"OTP", "TOTP", "PIN", "TOKEN">>   \* proxy.js:56, 68, 80, 92
Keys == {"rk1", "rk2"}         \* request_key values the provider returns
NoKey == ""
NoStage == ""
Outcomes == {"ok", "refused", "refusedMessage", "httpError", "networkError"}

VARIABLES
    fyersWS,           \* proxy.js:121  the handle: a socket id or NoSocket
    readyState,        \* readyState of every upstream socket ("NONE": not created)
    socketToken,       \* token in the URL each upstream socket was opened with
    onceOpen,          \* per upstream socket: its pending once('open') listeners
    errored,           \* upstream sockets that emitted 'error' and not yet 'close'
    fyersAccessToken,  \* proxy.js:21
    clientSockets,     \* proxy.js:122  the registry
    clientState,       \* per consumer: "new", "open", "closing", "closed"
    subs,              \* per consumer: instruments it subscribed to and did not unsubscribe
    upstreamSubs,      \* per upstream socket: instruments the provider has subscribed on it
    event,             \* the event the latest handler run handled
    sent,              \* per consumer: the send() calls the latest handler run made on it
    wire,              \* the control frames the latest handler run sent upstream
    login,             \* per login call: where it is suspended and its local variables
    http,              \* the requests the latest handler run issued to the provider
    reply,             \* the HTTP response the latest handler run gave its caller
    received,          \* history: the upstream frames handled so far, in order
    delivered,         \* history, per consumer: the ticks of the tick envelopes sent to it
    config,            \* proxy.js:18-19  which of FYERS_APP_ID, FYERS_SECRET_KEY are set
    hookAccessToken,   \* useMarketData.ts:23  the hook's accessToken argument
    wsRef,             \* useMarketData.ts:26  wsRef.current: a hook socket id or Null
    wsState,           \* readyState of every socket the hook created ("NONE": not created)
    wsSent,            \* per hook socket: the messages the hook sent on it
    hookTicks,         \* useMarketData.ts:24  ticks, the tick buffer
    snapshot,          \* useMarketData.ts:25
    arrived,           \* tick envelopes the hook handled since the latest 'open'
    analysis           \* the latest call of getGeminiAnalysis: its inputs and how it settled

vars == <<fyersWS, readyState, socketToken, onceOpen, errored, fyersAccessToken,
          clientSockets, clientState, subs, upstreamSubs, event, sent, wire,
          login, http, reply, received, delivered, config,
          hookAccessToken, wsRef, wsState, wsSent, hookTicks, snapshot, arrived, analysis>>

socketVars == <<readyState, socketToken, onceOpen, errored>>
registryVars == <<clientSockets, clientState, subs>>
relayVars == <<fyersWS, socketVars, registryVars, upstreamSubs>>
hookVars == <<hookAccessToken, wsRef, wsState, wsSent, hookTicks, snapshot, arrived>>
browserVars == <<hookVars, analysis>>

\* ---- events ----
Event(type, c, s, instrument, token, valid, ltp) ==
    [type |-> type, consumer |-> c, sock |-> s, instrument |-> instrument,
     accessToken |-> token, valid |-> valid, ltp |-> ltp]

ConsumerEvent(type, c) == Event(type, c, NoSocket, NoInstrument, NoToken, FALSE, 0)
CommandEvent(type, c, instrument, token) == Event(type, c, NoSocket, instrument, token, FALSE, 0)
SocketEvent(type, s) == Event(type, NoConsumer, s, NoInstrument, NoToken, FALSE, 0)
FrameEvent(s, valid, ltp, instrument) == Event("upstream.message", NoConsumer, s, instrument, NoToken, valid, ltp)

\* ---- envelopes and frames ----
\* proxy.js:139  { type: "tick", data: decoded }
TickEnvelope(tick) == [type |-> "tick", data |-> tick]

\* proxy.js:151
LostEnvelope == [type |-> "error", message |-> "Fyers connection lost."]

\* proxy.js:168  (this envelope has no "type" member)
NoTokenEnvelope == [error |-> "No access token available for subscription."]

\* proxy.js:176  { T: "SUB_DATA", symbol: [parsedMsg.instrument] } sent on socket s
SubFrame(s, instrument) == [sock |-> s, T |-> "SUB_DATA", symbol |-> instrument]

\* proxy.js:192  { T: "UNSUB_DATA", symbol: [parsedMsg.instrument] } sent on socket s
UnsubFrame(s, instrument) == [sock |-> s, T |-> "UNSUB_DATA", symbol |-> instrument]

\* proxy.js:138  MarketData.decode(msg): throws on a malformed buffer
Decode(e) == [ltp |-> e.ltp]

\* ---- the MarketData codec  proxy.js:24-33, 138-140 ----
\* The message type has two int64 fields and one double.  A frame on the wire holds any
\* of the three fields; a field it does not hold has the proto3 default, 0.
Fields == {"timestamp", "ltp", "volume"}
Int64Fields == {"timestamp", "volume"}      \* proxy.js:27, 29
FieldValues == {0, 1, 2}
WireFrames == UNION {[present -> FieldValues] : present \in SUBSET Fields}

\* the message a frame encodes
Meaning(frame) == [f \in Fields |-> IF f \in DOMAIN frame THEN frame[f] ELSE 0]

\* JSON values: a number, or the string of the decimal digits of a number
JsonNumber(n) == [number |-> n]
JsonString(n) == [string |-> n]

\* MarketData.decode: the fields read from the wire become own properties of the
\* message object; the others stay on the prototype
DecodeMessage(frame) == frame

\* JSON.stringify calls the message's toJSON, which is toObject with longs: String
\* and without defaults: own properties only, int64 values as decimal strings
ToJSON(message) ==
    [f \in DOMAIN message |->
        IF f \in Int64Fields THEN JsonString(message[f]) ELSE JsonNumber(message[f])]

\* ---- the manager state the guards of proxy.js read ----
\* faulty variant: the guard forgets the connection in progress
IsLiveOnlyOpen(h) == h # NoSocket /\ readyState[h] = "OPEN"

\* proxy.js:125
IsLive(h) == h # NoSocket /\ readyState[h] \in {"CONNECTING", "OPEN"}

\* faulty variant: a socket still connecting counts as open
IsOpenOrConnecting(h, rst) == h # NoSocket /\ rst[h] \in {"CONNECTING", "OPEN"}

\* proxy.js:175, 184, 191
IsOpen(h, rst) == h # NoSocket /\ rst[h] = "OPEN"

ManagerState ==
    IF fyersWS = NoSocket THEN "Disconnected"
    ELSE IF readyState[fyersWS] = "CONNECTING" THEN "Connecting"
    ELSE IF readyState[fyersWS] = "OPEN" THEN "Open"
    ELSE "Disconnected"

Created == {s \in Sockets : readyState[s] # "NONE"}
NotClosed == {s \in Sockets : readyState[s] \in {"CONNECTING", "OPEN", "CLOSING"}}
NextSocket == Cardinality(Created) + 1

\* ---- ws send() on a consumer socket: the data goes out only if the socket is OPEN ----
SendCall(c, env) == [env |-> env, written |-> clientState[c] = "open"]

NothingSent == [c \in Consumers |-> <<>>]

\* faulty variant: the fan-out filters by subscription
BroadcastToSubscribers(env) ==
    [c \in Consumers |->
        IF c \in clientSockets /\ subs[c] # {} THEN <<SendCall(c, env)>> ELSE <<>>]

\* faulty variant: send() throws on a socket that is not OPEN and ends the iteration
BroadcastStopsAtUnwritable(env) ==
    [c \in Consumers |->
        IF c \in clientSockets /\ \A d \in clientSockets : d <= c => clientState[d] = "open"
        THEN <<SendCall(c, env)>>
        ELSE <<>>]

\* faulty variant: every registered consumer is sent the envelope twice
BroadcastTwice(env) ==
    [c \in Consumers |->
        IF c \in clientSockets THEN <<SendCall(c, env), SendCall(c, env)>> ELSE <<>>]

\* clientSockets.forEach(client => client.send(env))   proxy.js:141, 151
Broadcast(env) ==
    [c \in Consumers |-> IF c \in clientSockets THEN <<SendCall(c, env)>> ELSE <<>>]

\* the provider's subscriptions on each socket after the control frames w
RECURSIVE ProviderAfter(_, _)
ProviderAfter(up, w) ==
    IF w = <<>> THEN up
    ELSE LET f == Head(w)
             up2 == IF f.T = "SUB_DATA"
                    THEN [up EXCEPT ![f.sock] = @ \cup {f.symbol}]
                    ELSE [up EXCEPT ![f.sock] = @ \ {f.symbol}]
         IN ProviderAfter(up2, Tail(w))

\* ---- POST /direct-login: data ----
\* a login call that has not arrived yet
NewLogin == [pc |-> "idle", key |-> NoKey, secretOk |-> FALSE,
             requests |-> <<>>, failedAt |-> NoStage]

NoReply == [call |-> Null, status |-> Null, body |-> [none |-> TRUE]]

\* res.status(status).json(body)
Reply(L, status, body) == [call |-> L, status |-> status, body |-> body]

\* axios.post of one stage; request_key is the key the request body carries
Request(L, stage, key) == [call |-> L, stage |-> stage, request_key |-> key]

LoginEvent(type, L, stage, outcome, key, stored) ==
    [type |-> type, call |-> L, stage |-> stage, outcome |-> outcome, key |-> key,
     stored |-> stored]

StageIndex(stage) == CHOOSE n \in 1..Len(Stages) : Stages[n] = stage
NextStage(stage) == Stages[StageIndex(stage) + 1]

\* the second operand of || in proxy.js:63, 75, 87, 99
DefaultMessage(stage) ==
    CASE stage = "OTP" -> "Failed to get request_key from send_login_otp."
      [] stage = "TOTP" -> "TOTP verification failed."
      [] stage = "PIN" -> "PIN verification failed."
      [] stage = "TOKEN" -> "Failed to retrieve final access token."

ProviderMessage == "message of the provider"
TransportMessage == "Network Error"
SecretMessage == "Invalid input - it is not base32 encoded string"

\* proxy.js:108  err.response?.data?.message || err.message
ErrorMessage(stage, outcome) ==
    CASE outcome = "refused" -> DefaultMessage(stage)
      [] outcome = "refusedMessage" -> ProviderMessage
      [] outcome = "httpError" -> ProviderMessage
      [] outcome = "networkError" -> TransportMessage

\* proxy.js:110
ErrorBody(message) == [error |-> message]

\* proxy.js:105
TokenBody(token) == [access_token |-> token]

\* faulty variant: the handler forgets to test data.s and data.request_key
AbortsOnlyOnReject(outcome) == outcome \in {"httpError", "networkError"}

\* the awaited call rejects, or the test at proxy.js:62, 74, 86, 98 throws
Aborts(outcome) == outcome # "ok"

\* faulty variant: the request of the next stage carries the key of the request before
KeyForNextStale(L, key) == login[L].key

\* proxy.js:65, 77, 89: the key of the response goes into the next request (70, 81, 94)
KeyForNext(L, key) == key

\* faulty variant: the catch block issues the failed stage's request again
OnFailureRetries(L, stage) ==
    [pc |-> stage, failedAt |-> NoStage, http |-> <<Request(L, stage, login[L].key)>>]

\* proxy.js:107-111: the catch block only answers the caller; the call is over
OnFailure(L, stage) == [pc |-> "failed", failedAt |-> stage, http |-> <<>>]

RequestedStages(reqs) == [n \in 1..Len(reqs) |-> reqs[n].stage]

\* ---- the client hook  useMarketData.ts ----
HookSockets == 1..MaxHookSockets   \* numbered in the order the hook creates them
NoSnapshot == "null"
Snapshots == {"depth"}
HookInstrument == "NSE:SBIN-EQ"    \* the hook's instrument argument
MessageKinds == {"tick", "snapshot", "error", "invalid.json"}

\* useMarketData.ts:68  slice(-199)
Kept == 199

\* useMarketData.ts:55-59
SubMessage(instrument, token) ==
    [type |-> "subscribe", instrument |-> instrument, accessToken |-> token]

\* a socket the hook has not created / has created with the token its handlers captured
NoHookSocket == [readyState |-> "NONE", accessToken |-> NoToken]
HookSocket(state, token) == [readyState |-> state, accessToken |-> token]

\* ---- getGeminiAnalysis  geminiService.ts ----
\* what reading a member that is missing gives
Undefined == [undefined |-> TRUE]
Signals == {"BUY", "SELL", "HOLD"}                 \* types.ts:22-26
ClosePrices == {510}
TargetPrices == {520}
StopPrices == {500}
ErrorConfidence == JsonNumber("0.5")               \* geminiService.ts:115
ErrorReason == JsonString("Could not retrieve AI analysis due to an error.")

\* the ticks argument: at most MaxInputTicks ticks, of which the price is read
InputTicks == UNION {[1..n -> [price : Ticks]] : n \in 0..MaxInputTicks}

\* the objects the response text can parse to: any member may be missing, the signal
\* may be a string outside the enumeration, signal and reason may be empty
ResponseObjects ==
    [signal : {JsonString(x) : x \in Signals \cup {"MAYBE", ""}} \cup {Undefined},
     confidence : {JsonNumber("0.9"), Undefined},
     target : {JsonNumber(n) : n \in TargetPrices} \cup {Undefined},
     stoploss : {JsonNumber(n) : n \in StopPrices} \cup {Undefined},
     reason : {JsonString("momentum"), JsonString(""), Undefined}]

NoObject == [signal |-> Undefined, confidence |-> Undefined, target |-> Undefined,
             stoploss |-> Undefined, reason |-> Undefined]

\* how the awaited call ends: it rejects, its response has no text, the text is not
\* JSON, it is the JSON null, a JSON number or string, or a JSON object
FailureKinds == {"rejected", "noText", "notJson", "null", "scalar"}
ModelResponses ==
    {[kind |-> k, value |-> NoObject] : k \in FailureKinds}
        \cup {[kind |-> "object", value |-> v] : v \in ResponseObjects}

NoResponse == [kind |-> "none", value |-> NoObject]
NoResult == [state |-> "pending", value |-> NoObject]
Fulfilled(value) == [state |-> "fulfilled", value |-> value]

NoCall == [pc |-> "idle", ticks |-> <<>>, close |-> Null, latestPrice |-> Undefined,
           response |-> NoResponse, result |-> NoResult]

\* the module-level state after proxy.js has been loaded
Loaded ==
    /\ fyersWS = NoSocket
    /\ readyState = [s \in Sockets |-> "NONE"]
    /\ socketToken = [s \in Sockets |-> NoToken]
    /\ onceOpen = [s \in Sockets |-> <<>>]
    /\ errored = {}
    /\ fyersAccessToken = NoToken
    /\ clientSockets = {}
    /\ clientState = [c \in Consumers |-> "new"]
    /\ subs = [c \in Consumers |-> {}]
    /\ upstreamSubs = [s \in Sockets |-> {}]
    /\ event = SocketEvent("start", NoSocket)
    /\ sent = NothingSent
    /\ wire = <<>>
    /\ login = [L \in Logins |-> NewLogin]
    /\ http = <<>>
    /\ reply = NoReply
    /\ received = <<>>
    /\ delivered = [c \in Consumers |-> <<>>]
    /\ hookAccessToken = NoToken
    /\ wsRef = Null
    /\ wsState = [s \in HookSockets |-> NoHookSocket]
    /\ wsSent = [s \in HookSockets |-> <<>>]
    /\ hookTicks = <<>>
    /\ snapshot = NoSnapshot
    /\ arrived = 0
    /\ analysis = NoCall

\* both credentials are set in the environment
Init == Loaded /\ config = [appId |-> TRUE, secretKey |-> TRUE]

\* a credential is missing from the environment
UnconfiguredInit == Loaded /\ config \in {cfg \in [appId : BOOLEAN, secretKey : BOOLEAN] :
                                             ~(cfg.appId /\ cfg.secretKey)}

\* ---- wss.on("connection")  proxy.js:157-159 ----
ConsumerConnect(c) ==
    /\ clientState[c] = "new"
    /\ \A d \in Consumers : d < c => clientState[d] # "new"
    /\ clientState' = [clientState EXCEPT ![c] = "open"]
    /\ clientSockets' = clientSockets \cup {c}
    /\ event' = ConsumerEvent("connection", c)
    /\ sent' = NothingSent
    /\ wire' = <<>>
    /\ UNCHANGED <<fyersWS, socketVars, fyersAccessToken, subs, upstreamSubs>>

\* the consumer's transport starts closing: readyState CLOSING, 'close' not yet emitted
ConsumerStartClose(c) ==
    /\ clientState[c] = "open"
    /\ clientState' = [clientState EXCEPT ![c] = "closing"]
    /\ event' = ConsumerEvent("consumer.closing", c)
    /\ sent' = NothingSent
    /\ wire' = <<>>
    /\ UNCHANGED <<fyersWS, socketVars, fyersAccessToken, clientSockets, subs, upstreamSubs>>

\* faulty variant: the 'close' handler leaves the consumer in the registry
ConsumerCloseKeepsRegistered(c) ==
    /\ clientState[c] \in {"open", "closing"}
    /\ clientState' = [clientState EXCEPT ![c] = "closed"]
    /\ event' = ConsumerEvent("consumer.close", c)
    /\ sent' = NothingSent
    /\ wire' = <<>>
    /\ UNCHANGED <<fyersWS, socketVars, fyersAccessToken, clientSockets, subs, upstreamSubs>>

\* faulty variant: the upstream socket is closed when the last consumer leaves
ConsumerCloseStopsUpstream(c) ==
    /\ clientState[c] \in {"open", "closing"}
    /\ clientState' = [clientState EXCEPT ![c] = "closed"]
    /\ clientSockets' = clientSockets \ {c}
    /\ subs' = [subs EXCEPT ![c] = {}]
    /\ event' = ConsumerEvent("consumer.close", c)
    /\ sent' = NothingSent
    /\ wire' = <<>>
    /\ readyState' = IF clientSockets \ {c} = {} /\ IsLive(fyersWS)
                     THEN [readyState EXCEPT ![fyersWS] = "CLOSING"]
                     ELSE readyState
    /\ UNCHANGED <<fyersWS, socketToken, onceOpen, errored, fyersAccessToken, upstreamSubs>>

\* ws.on("close")  proxy.js:202-205
ConsumerClose(c) ==
    /\ clientState[c] \in {"open", "closing"}
    /\ clientState' = [clientState EXCEPT ![c] = "closed"]
    /\ clientSockets' = clientSockets \ {c}
    /\ subs' = [subs EXCEPT ![c] = {}]
    /\ event' = ConsumerEvent("consumer.close", c)
    /\ sent' = NothingSent
    /\ wire' = <<>>
    /\ UNCHANGED <<fyersWS, socketVars, fyersAccessToken, upstreamSubs>>

\* ---- ws.on("message"), subscribe branch  proxy.js:165-188 ----
\* connectToFyers  proxy.js:124-132: does the call create a socket
ConnectCreates == ~IsLive(fyersWS)

\* faulty variant: the stored token wins over the token of the command
TokenToUseStoredFirst(accessToken) ==
    IF fyersAccessToken # NoToken THEN fyersAccessToken ELSE accessToken

\* proxy.js:166  parsedMsg.accessToken || fyersAccessToken
TokenToUse(accessToken) ==
    IF accessToken # NoToken THEN accessToken ELSE fyersAccessToken

Subscribe(c, instrument, accessToken) ==
    LET tokenToUse == TokenToUse(accessToken) IN
    /\ clientState[c] = "open"
    /\ event' = CommandEvent("subscribe", c, instrument, accessToken)
    /\ IF tokenToUse = NoToken
       THEN /\ sent' = [NothingSent EXCEPT ![c] = <<SendCall(c, NoTokenEnvelope)>>]
            /\ wire' = <<>>
            /\ UNCHANGED <<fyersWS, socketVars, subs, upstreamSubs>>
       ELSE IF ConnectCreates /\ ~config.appId
       THEN \* proxy.js:129  FYERS_APP_ID.split throws; the catch at 197 logs it
            /\ sent' = NothingSent
            /\ wire' = <<>>
            /\ UNCHANGED <<fyersWS, socketVars, subs, upstreamSubs>>
       ELSE LET s == IF ConnectCreates THEN NextSocket ELSE fyersWS
                rst == IF ConnectCreates
                       THEN [readyState EXCEPT ![s] = "CONNECTING"]
                       ELSE readyState
            IN /\ ConnectCreates => NextSocket <= MaxSockets
               /\ fyersWS' = s
               /\ readyState' = rst
               /\ socketToken' = IF ConnectCreates
                                 THEN [socketToken EXCEPT ![s] = tokenToUse]
                                 ELSE socketToken
               /\ IF IsOpen(s, rst)
                  THEN /\ wire' = <<SubFrame(s, instrument)>>
                       /\ UNCHANGED onceOpen
                  ELSE /\ Len(onceOpen[s]) < MaxPending
                       /\ onceOpen' = [onceOpen EXCEPT ![s] =
                              Append(@, [consumer |-> c, instrument |-> instrument])]
                       /\ wire' = <<>>
               /\ upstreamSubs' = ProviderAfter(upstreamSubs, wire')
               /\ subs' = [subs EXCEPT ![c] = @ \cup {instrument}]
               /\ sent' = NothingSent
               /\ UNCHANGED errored
    /\ UNCHANGED <<fyersAccessToken, clientSockets, clientState>>

\* ---- ws.on("message"): a message that is not JSON, or whose type is neither
\* "subscribe" nor "unsubscribe"  proxy.js:161-165, 190, 197-199 ----
IgnoredKinds == {"invalid.json", "unknown.type"}

\* faulty variant: the handler answers the sender with an error envelope
ConsumerMessageAnswered(c, kind) ==
    /\ clientState[c] = "open"
    /\ event' = CommandEvent(kind, c, NoInstrument, NoToken)
    /\ sent' = [NothingSent EXCEPT ![c] = <<SendCall(c, NoTokenEnvelope)>>]
    /\ wire' = <<>>
    /\ UNCHANGED <<relayVars, fyersAccessToken>>

\* JSON.parse throws into the catch block, or no branch matches: only a log line
ConsumerMessageIgnored(c, kind) ==
    /\ clientState[c] = "open"
    /\ event' = CommandEvent(kind, c, NoInstrument, NoToken)
    /\ sent' = NothingSent
    /\ wire' = <<>>
    /\ UNCHANGED <<relayVars, fyersAccessToken>>

\* ---- ws.on("message"), unsubscribe branch  proxy.js:190-196 ----
Unsubscribe(c, instrument) ==
    /\ clientState[c] = "open"
    /\ event' = CommandEvent("unsubscribe", c, instrument, NoToken)
    /\ wire' = IF IsOpen(fyersWS, readyState)
               THEN <<UnsubFrame(fyersWS, instrument)>>
               ELSE <<>>
    /\ upstreamSubs' = ProviderAfter(upstreamSubs, wire')
    /\ subs' = [subs EXCEPT ![c] = @ \ {instrument}]
    /\ sent' = NothingSent
    /\ UNCHANGED <<fyersWS, socketVars, fyersAccessToken, clientSockets, clientState>>

\* ---- upstream 'open': the log listener (proxy.js:134), then the once listeners ----
\* subscribeAction  proxy.js:174-182, run for each listener in turn with the handle h
RECURSIVE RunSubscribeActions(_, _, _)
RunSubscribeActions(listeners, h, rst) ==
    IF listeners = <<>> THEN <<>>
    ELSE (IF IsOpen(h, rst) THEN <<SubFrame(h, Head(listeners).instrument)>> ELSE <<>>)
         \o RunSubscribeActions(Tail(listeners), h, rst)

\* faulty variant: on 'open' the relay also subscribes again to every instrument a
\* registered consumer had subscribed to before
UpstreamOpenResubscribes(s) ==
    LET Held(i) == \E c \in clientSockets : i \in subs[c]
        rst == [readyState EXCEPT ![s] = "OPEN"]
        again == SelectSeq(<<"NSE:SBIN-EQ", "NSE:TCS-EQ">>, Held)
    IN
    /\ readyState[s] = "CONNECTING"
    /\ readyState' = rst
    /\ wire' = RunSubscribeActions(onceOpen[s], fyersWS, rst)
                \o [n \in 1..Len(again) |-> SubFrame(s, again[n])]
    /\ onceOpen' = [onceOpen EXCEPT ![s] = <<>>]
    /\ upstreamSubs' = ProviderAfter(upstreamSubs, wire')
    /\ event' = SocketEvent("upstream.open", s)
    /\ sent' = NothingSent
    /\ UNCHANGED <<fyersWS, socketToken, errored, fyersAccessToken, registryVars>>

UpstreamOpen(s) ==
    /\ readyState[s] = "CONNECTING"
    /\ readyState' = [readyState EXCEPT ![s] = "OPEN"]
    /\ wire' = RunSubscribeActions(onceOpen[s], fyersWS, readyState')
    /\ onceOpen' = [onceOpen EXCEPT ![s] = <<>>]
    /\ upstreamSubs' = ProviderAfter(upstreamSubs, wire')
    /\ event' = SocketEvent("upstream.open", s)
    /\ sent' = NothingSent
    /\ UNCHANGED <<fyersWS, socketToken, errored, fyersAccessToken, registryVars>>

\* ---- upstream 'message'  proxy.js:136-145 ----
\* instrument is the instrument a decodable frame is a tick of (the three-field
\* schema does not carry it): one the provider has subscribed on this socket
\* faulty variant: a frame that does not decode makes the relay close the socket
UpstreamMessageClosesOnBadFrame(s, valid, ltp, instrument) ==
    /\ readyState[s] = "OPEN"
    /\ IF valid THEN instrument \in upstreamSubs[s] ELSE instrument = NoInstrument
    /\ event' = FrameEvent(s, valid, ltp, instrument)
    /\ sent' = IF valid THEN Broadcast(TickEnvelope(Decode(event'))) ELSE NothingSent
    /\ wire' = <<>>
    /\ readyState' = IF valid THEN readyState ELSE [readyState EXCEPT ![s] = "CLOSING"]
    /\ upstreamSubs' = IF valid THEN upstreamSubs ELSE [upstreamSubs EXCEPT ![s] = {}]
    /\ UNCHANGED <<fyersWS, socketToken, onceOpen, errored, fyersAccessToken, registryVars>>

UpstreamMessage(s, valid, ltp, instrument) ==
    /\ readyState[s] = "OPEN"
    /\ IF valid THEN instrument \in upstreamSubs[s] ELSE instrument = NoInstrument
    /\ event' = FrameEvent(s, valid, ltp, instrument)
    /\ sent' = IF valid THEN Broadcast(TickEnvelope(Decode(event'))) ELSE NothingSent
    /\ wire' = <<>>
    /\ UNCHANGED <<fyersWS, socketVars, fyersAccessToken, registryVars, upstreamSubs>>

\* upstream 'message' with the whole content of the frame (UpstreamMessage keeps only
\* the ltp of a frame and whether it decodes)  proxy.js:136-141
UpstreamFrame(s, frame) ==
    /\ readyState[s] = "OPEN"
    /\ upstreamSubs[s] # {}
    /\ event' = [type |-> "upstream.frame", sock |-> s, frame |-> frame]
    /\ sent' = Broadcast(TickEnvelope(ToJSON(DecodeMessage(frame))))
    /\ wire' = <<>>
    /\ UNCHANGED <<fyersWS, socketVars, fyersAccessToken, registryVars, upstreamSubs>>

\* ---- the provider or the transport starts closing an upstream socket ----
\* close frame received, or the TCP connection ended: readyState CLOSING, no event yet.
\* The socket will never emit 'open' (again) and the provider serves it no longer:
\* its once('open') listeners and its provider-side subscriptions are dropped here.
UpstreamStartClose(s) ==
    /\ readyState[s] \in {"CONNECTING", "OPEN"}
    /\ readyState' = [readyState EXCEPT ![s] = "CLOSING"]
    /\ onceOpen' = [onceOpen EXCEPT ![s] = <<>>]
    /\ upstreamSubs' = [upstreamSubs EXCEPT ![s] = {}]
    /\ event' = SocketEvent("upstream.closing", s)
    /\ sent' = NothingSent
    /\ wire' = <<>>
    /\ UNCHANGED <<fyersWS, socketToken, errored, fyersAccessToken, registryVars>>

\* upstream 'error'  proxy.js:154: the library has set CLOSING; the handler only logs
UpstreamError(s) ==
    /\ readyState[s] \in {"CONNECTING", "OPEN"}
    /\ readyState' = [readyState EXCEPT ![s] = "CLOSING"]
    /\ errored' = errored \cup {s}
    /\ onceOpen' = [onceOpen EXCEPT ![s] = <<>>]
    /\ upstreamSubs' = [upstreamSubs EXCEPT ![s] = {}]
    /\ event' = SocketEvent("upstream.error", s)
    /\ sent' = NothingSent
    /\ wire' = <<>>
    /\ UNCHANGED <<fyersWS, socketToken, fyersAccessToken, registryVars>>

\* faulty variant: the 'close' handler does not clear the handle
UpstreamCloseKeepsHandle(s) ==
    /\ readyState[s] = "CLOSING"
    /\ readyState' = [readyState EXCEPT ![s] = "CLOSED"]
    /\ sent' = Broadcast(LostEnvelope)
    /\ errored' = errored \ {s}
    /\ event' = SocketEvent("upstream.close", s)
    /\ wire' = <<>>
    /\ UNCHANGED <<fyersWS, socketToken, onceOpen, upstreamSubs, fyersAccessToken, registryVars>>

\* faulty variant: the 'close' handler notifies nobody
UpstreamCloseSilent(s) ==
    /\ readyState[s] = "CLOSING"
    /\ readyState' = [readyState EXCEPT ![s] = "CLOSED"]
    /\ fyersWS' = NoSocket
    /\ sent' = NothingSent
    /\ errored' = errored \ {s}
    /\ event' = SocketEvent("upstream.close", s)
    /\ wire' = <<>>
    /\ UNCHANGED <<socketToken, onceOpen, upstreamSubs, fyersAccessToken, registryVars>>

\* faulty variant: the close handler opens the next socket by itself
UpstreamCloseReconnects(s) ==
    /\ readyState[s] = "CLOSING"
    /\ NextSocket <= MaxSockets
    /\ readyState' = [readyState EXCEPT ![s] = "CLOSED", ![NextSocket] = "CONNECTING"]
    /\ socketToken' = [socketToken EXCEPT ![NextSocket] = socketToken[s]]
    /\ fyersWS' = NextSocket
    /\ sent' = Broadcast(LostEnvelope)
    /\ errored' = errored \ {s}
    /\ event' = SocketEvent("upstream.close", s)
    /\ wire' = <<>>
    /\ UNCHANGED <<onceOpen, upstreamSubs, fyersAccessToken, registryVars>>

\* upstream 'close'  proxy.js:147-152
UpstreamClose(s) ==
    /\ readyState[s] = "CLOSING"
    /\ readyState' = [readyState EXCEPT ![s] = "CLOSED"]
    /\ fyersWS' = NoSocket
    /\ sent' = Broadcast(LostEnvelope)
    /\ errored' = errored \ {s}
    /\ event' = SocketEvent("upstream.close", s)
    /\ wire' = <<>>
    /\ UNCHANGED <<socketToken, onceOpen, upstreamSubs, fyersAccessToken, registryVars>>

\* ---- app.post("/direct-login"), up to the first await  proxy.js:42-60 ----
\* faulty variant: the handler does not test the body before it calls the provider
LoginStartUnchecked(L, complete, secretOk) ==
    /\ login[L].pc = "idle"
    /\ \A K \in Logins : K < L => login[K].pc # "idle"
    /\ ~complete => ~secretOk
    /\ http' = <<Request(L, "OTP", NoKey)>>
    /\ login' = [login EXCEPT ![L] =
           [@ EXCEPT !.pc = "OTP", !.secretOk = secretOk,
                     !.requests = RequestedStages(http')]]
    /\ reply' = NoReply
    /\ event' = LoginEvent("login.start", L, NoStage,
                           IF complete THEN "complete" ELSE "incomplete",
                           NoKey, fyersAccessToken)
    /\ sent' = NothingSent
    /\ wire' = <<>>
    /\ UNCHANGED <<relayVars, fyersAccessToken, received, delivered, config, browserVars>>

\* complete: fyersId, pin and totpSecret are all present in the body;
\* secretOk: authenticator.generate accepts totpSecret
LoginStart(L, complete, secretOk) ==
    /\ login[L].pc = "idle"
    /\ \A K \in Logins : K < L => login[K].pc # "idle"
    /\ ~complete => ~secretOk
    /\ IF ~complete
       THEN /\ login' = [login EXCEPT ![L].pc = "rejected"]
            /\ http' = <<>>
            /\ reply' = Reply(L, 400,
                   ErrorBody("Fyers ID, PIN, and TOTP Secret are required."))
       ELSE IF ~(config.appId /\ config.secretKey)
       THEN /\ login' = [login EXCEPT ![L].pc = "unconfigured"]
            /\ http' = <<>>
            /\ reply' = Reply(L, 500,
                   ErrorBody("Server is not configured. Missing App ID or Secret Key."))
       ELSE /\ http' = <<Request(L, "OTP", NoKey)>>
            /\ login' = [login EXCEPT ![L] =
                   [@ EXCEPT !.pc = "OTP", !.secretOk = secretOk,
                             !.requests = RequestedStages(http')]]
            /\ reply' = NoReply
    /\ event' = LoginEvent("login.start", L, NoStage,
                           IF complete THEN "complete" ELSE "incomplete",
                           NoKey, fyersAccessToken)
    /\ sent' = NothingSent
    /\ wire' = <<>>
    /\ UNCHANGED <<relayVars, fyersAccessToken, received, delivered, config, browserVars>>

\* ---- app.post("/direct-login"), resumed by the response of the stage it awaits
\* proxy.js:60-111 ----
\* outcome: what the awaited axios.post gave; key, token: data.request_key and
\* data.access_token of a response that passes the test
LoginResponse(L, outcome, key, token) ==
    LET stage == login[L].pc
        thrown == IF Aborts(outcome) THEN OnFailure(L, stage) ELSE OnFailure(L, "TOTP")
    IN
    /\ stage \in {Stages[n] : n \in 1..Len(Stages)}
    /\ key \in Keys <=> (outcome = "ok" /\ stage # "TOKEN")
    /\ token \in Tokens <=> (outcome = "ok" /\ stage = "TOKEN")
    /\ event' = LoginEvent("login.response", L, stage, outcome, key, fyersAccessToken)
    /\ IF Aborts(outcome) \/ (stage = "OTP" /\ ~login[L].secretOk)
       THEN /\ login' = [login EXCEPT ![L] =
                   [@ EXCEPT !.pc = thrown.pc, !.failedAt = thrown.failedAt,
                             !.requests = @ \o RequestedStages(thrown.http)]]
            /\ http' = thrown.http
            /\ reply' = Reply(L, 500, ErrorBody(IF Aborts(outcome)
                                                THEN ErrorMessage(stage, outcome)
                                                ELSE SecretMessage))
            /\ UNCHANGED fyersAccessToken
       ELSE IF stage = "TOKEN"
       THEN /\ fyersAccessToken' = token
            /\ login' = [login EXCEPT ![L].pc = "done"]
            /\ http' = <<>>
            /\ reply' = Reply(L, 200, TokenBody(fyersAccessToken'))
       ELSE /\ http' = <<Request(L, NextStage(stage), KeyForNext(L, key))>>
            /\ login' = [login EXCEPT ![L] =
                   [@ EXCEPT !.pc = NextStage(stage), !.key = http'[1].request_key,
                             !.requests = @ \o RequestedStages(http')]]
            /\ reply' = NoReply
            /\ UNCHANGED fyersAccessToken
    /\ sent' = NothingSent
    /\ wire' = <<>>
    /\ UNCHANGED <<relayVars, received, delivered, config, browserVars>>

\* ---- app.post("/exchange-token") of the server variant src/unnamed/part_005:388-418 ----
\* A call is kept in login like a direct login call; pc "EXCHANGE" is the one await.
\* hasCode: the body carries auth_code
ExchangeStart(L, hasCode) ==
    /\ login[L].pc = "idle"
    /\ \A K \in Logins : K < L => login[K].pc # "idle"
    /\ IF ~hasCode
       THEN /\ login' = [login EXCEPT ![L].pc = "rejected"]
            /\ reply' = Reply(L, 400, ErrorBody("Missing required parameter: auth_code."))
       ELSE /\ login' = [login EXCEPT ![L].pc = "EXCHANGE"]
            /\ reply' = NoReply
    /\ http' = IF hasCode THEN <<Request(L, "EXCHANGE", NoKey)>> ELSE <<>>
    /\ event' = LoginEvent("exchange.start", L, NoStage,
                           IF hasCode THEN "complete" ELSE "incomplete",
                           NoKey, fyersAccessToken)
    /\ sent' = NothingSent
    /\ wire' = <<>>
    /\ UNCHANGED <<relayVars, fyersAccessToken, received, delivered, config, browserVars>>

\* faulty variant: a new token makes the handler drop the upstream handle
ExchangeResponseDropsHandle(L, outcome, token) ==
    /\ login[L].pc = "EXCHANGE"
    /\ token \in Tokens <=> outcome = "ok"
    /\ event' = LoginEvent("exchange.response", L, "EXCHANGE", outcome, NoKey,
                           fyersAccessToken)
    /\ fyersAccessToken' = IF outcome = "ok" THEN token ELSE fyersAccessToken
    /\ fyersWS' = IF outcome = "ok" THEN NoSocket ELSE fyersWS
    /\ login' = [login EXCEPT ![L].pc = IF outcome = "ok" THEN "done" ELSE "failed"]
    /\ reply' = Reply(L, IF outcome = "ok" THEN 200 ELSE 500, ErrorBody(outcome))
    /\ http' = <<>>
    /\ sent' = NothingSent
    /\ wire' = <<>>
    /\ UNCHANGED <<socketVars, registryVars, upstreamSubs, received, delivered, config, browserVars>>

\* the response of the provider's token endpoint: part_005:402-417
ExchangeResponse(L, outcome, token) ==
    /\ login[L].pc = "EXCHANGE"
    /\ token \in Tokens <=> outcome = "ok"
    /\ event' = LoginEvent("exchange.response", L, "EXCHANGE", outcome, NoKey,
                           fyersAccessToken)
    /\ IF outcome = "ok"
       THEN /\ fyersAccessToken' = token
            /\ login' = [login EXCEPT ![L].pc = "done"]
            /\ reply' = Reply(L, 200, TokenBody(fyersAccessToken'))
       ELSE /\ login' = [login EXCEPT ![L] = [@ EXCEPT !.pc = "failed",
                                                       !.failedAt = "EXCHANGE"]]
            /\ reply' = Reply(L, 500, ErrorBody(
                   "Failed to exchange Fyers authorization code for an access token."))
            /\ UNCHANGED fyersAccessToken
    /\ http' = <<>>
    /\ sent' = NothingSent
    /\ wire' = <<>>
    /\ UNCHANGED <<relayVars, received, delivered, config, browserVars>>

\* no login call arrives or resumes, and no history is kept
LoginIdle == UNCHANGED <<login, http, reply, received, delivered, config, browserVars>>

Next ==
    \/ \E c \in Consumers : ConsumerConnect(c) /\ LoginIdle
    \/ \E c \in Consumers : ConsumerStartClose(c) /\ LoginIdle
    \/ \E c \in Consumers : ConsumerClose(c) /\ LoginIdle
    \/ \E c \in Consumers, i \in Instruments, t \in Tokens \cup {NoToken} :
          Subscribe(c, i, t) /\ LoginIdle
    \/ \E c \in Consumers, k \in IgnoredKinds : ConsumerMessageIgnored(c, k) /\ LoginIdle
    \/ \E c \in Consumers, i \in Instruments : Unsubscribe(c, i) /\ LoginIdle
    \/ \E s \in Sockets : UpstreamOpen(s) /\ LoginIdle
    \/ \E s \in Sockets, v \in BOOLEAN, l \in Ticks, i \in Instruments \cup {NoInstrument} :
          UpstreamMessage(s, v, l, i) /\ LoginIdle
    \/ \E s \in Sockets : UpstreamStartClose(s) /\ LoginIdle
    \/ \E s \in Sockets : UpstreamError(s) /\ LoginIdle
    \/ \E s \in Sockets : UpstreamClose(s) /\ LoginIdle

Spec == Init /\ [][Next]_vars

\* the library emits 'close' for every socket it has put in CLOSING
FairSpec == Spec /\ \A s \in Sockets : WF_vars(UpstreamClose(s) /\ LoginIdle)

\* a connection attempt ends: the socket leaves CONNECTING, by 'open', by an error or
\* by the start of a close
AttemptEnds(s) == UpstreamOpen(s) \/ UpstreamStartClose(s) \/ UpstreamError(s)

\* every connection attempt ends, and the library emits 'close' for every socket it
\* has put in CLOSING
AttemptFairSpec ==
    Spec /\ \A s \in Sockets : /\ WF_vars(AttemptEnds(s) /\ LoginIdle)
                              /\ WF_vars(UpstreamClose(s) /\ LoginIdle)

\* ---- the login handler alone: calls of POST /direct-login and the provider's answers ----
LoginNext ==
    \/ \E L \in Logins, complete \in BOOLEAN, secretOk \in BOOLEAN :
          LoginStart(L, complete, secretOk)
    \/ \E L \in Logins, outcome \in Outcomes, key \in Keys \cup {NoKey},
          token \in Tokens \cup {NoToken} : LoginResponse(L, outcome, key, token)

LoginSpec == Init /\ [][LoginNext]_vars

\* ---- the streaming path with the history of frames and tick envelopes ----
\* Left out are the handlers that send no tick and leave the registry alone:
\* unsubscribe, ignored consumer messages, and upstream 'error' (which the history
\* cannot tell from the start of a close).
IsTick(call) == "type" \in DOMAIN call.env /\ call.env.type = "tick"

TicksOf(calls) ==
    LET ticks == SelectSeq(calls, IsTick) IN [n \in 1..Len(ticks) |-> ticks[n].env.data]

\* the handler run that has just ended is appended to the history
Record ==
    /\ received' = IF event'.type = "upstream.message"
                   THEN Append(received, [valid |-> event'.valid, tick |-> Decode(event')])
                   ELSE received
    /\ delivered' = [c \in Consumers |-> delivered[c] \o TicksOf(sent'[c])]
    /\ Len(received') <= MaxFrames
    /\ UNCHANGED <<login, http, reply, config, browserVars>>

OrderNext ==
    \/ \E c \in Consumers : ConsumerConnect(c) /\ Record
    \/ \E c \in Consumers : ConsumerStartClose(c) /\ Record
    \/ \E c \in Consumers : ConsumerClose(c) /\ Record
    \/ \E c \in Consumers, i \in Instruments, t \in Tokens \cup {NoToken} :
          Subscribe(c, i, t) /\ Record
    \/ \E s \in Sockets : UpstreamOpen(s) /\ Record
    \/ \E s \in Sockets, v \in BOOLEAN, l \in Ticks, i \in Instruments \cup {NoInstrument} :
          UpstreamMessage(s, v, l, i) /\ Record
    \/ \E s \in Sockets : UpstreamStartClose(s) /\ Record
    \/ \E s \in Sockets : UpstreamClose(s) /\ Record

OrderSpec == Init /\ [][OrderNext]_vars

\* ---- the path of one tick, from the subscribe that opens the upstream socket to
\* the envelope, with the whole content of the frames ----
EndToEndNext ==
    \/ \E c \in Consumers : ConsumerConnect(c) /\ LoginIdle
    \/ \E c \in Consumers, i \in Instruments, t \in Tokens \cup {NoToken} :
          Subscribe(c, i, t) /\ LoginIdle
    \/ \E s \in Sockets : UpstreamOpen(s) /\ LoginIdle
    \/ \E s \in Sockets, frame \in WireFrames : UpstreamFrame(s, frame) /\ LoginIdle

EndToEndSpec == Init /\ [][EndToEndNext]_vars

\* ---- the process started without one of its credentials ----
\* proxy.js does not test them when it is loaded: app.listen and the WebSocket server
\* run (114-119) and every handler is installed.  No login call gets past the test
\* at 48-50, so the continuations of the login handler never run.  The actions are
\* the ones that accept a consumer, answer a login call and bring up an upstream socket.
ConfigNext ==
    \/ \E c \in Consumers : ConsumerConnect(c) /\ LoginIdle
    \/ \E c \in Consumers : ConsumerStartClose(c) /\ LoginIdle
    \/ \E c \in Consumers : ConsumerClose(c) /\ LoginIdle
    \/ \E c \in Consumers, i \in Instruments, t \in Tokens \cup {NoToken} :
          Subscribe(c, i, t) /\ LoginIdle
    \/ \E s \in Sockets : UpstreamOpen(s) /\ LoginIdle
    \/ \E L \in Logins, complete \in BOOLEAN : LoginStart(L, complete, FALSE)

ConfigSpec == UnconfiguredInit /\ [][ConfigNext]_vars

\* ---- login calls beside the streaming path: the two meet in fyersAccessToken ----
\* A command carries the token of an earlier login, another token, or none.  The
\* provider's answers are cut down to success and refusal, with one request key, and
\* the commands to one instrument (neither handler reads the instrument to pick a token).
CommandTokens == Tokens \cup {"tok456", NoToken}

TokenNext ==
    \/ \E c \in Consumers : ConsumerConnect(c) /\ LoginIdle
    \/ \E c \in Consumers : ConsumerClose(c) /\ LoginIdle
    \/ \E c \in Consumers, t \in CommandTokens :
          Subscribe(c, "NSE:SBIN-EQ", t) /\ LoginIdle
    \/ \E s \in Sockets : UpstreamOpen(s) /\ LoginIdle
    \/ \E L \in Logins, complete \in BOOLEAN : LoginStart(L, complete, complete)
    \/ \E L \in Logins, outcome \in {"ok", "refused"}, key \in {"rk1", NoKey},
          token \in Tokens \cup {NoToken} : LoginResponse(L, outcome, key, token)
    \/ \E L \in Logins, hasCode \in BOOLEAN : ExchangeStart(L, hasCode)
    \/ \E L \in Logins, outcome \in {"ok", "refused"}, token \in Tokens \cup {NoToken} :
          ExchangeResponse(L, outcome, token)

TokenSpec == Init /\ [][TokenNext]_vars

\* ---- the client hook alone: calls of connect() and disconnect(), the events of
\* its sockets and the messages it receives ----
ServerIdle ==
    UNCHANGED <<relayVars, fyersAccessToken, event, sent, wire, login, http, reply,
                received, delivered, config>>

HookCreated == {s \in HookSockets : wsState[s].readyState # "NONE"}
NextHookSocket == Cardinality(HookCreated) + 1

\* faulty variant: slice keeps the whole buffer
SliceKeepsAll(prev) == prev

\* useMarketData.ts:68  prev.slice(-199): the last 199 elements
Slice(prev) ==
    IF Len(prev) <= Kept THEN prev ELSE SubSeq(prev, Len(prev) - Kept + 1, Len(prev))

\* the component is rendered with another access token  useMarketData.ts:23
HookRender(token) ==
    /\ token # hookAccessToken
    /\ hookAccessToken' = token
    /\ UNCHANGED <<wsRef, wsState, wsSent, hookTicks, snapshot, arrived, analysis>>

\* connect()  useMarketData.ts:36-49; the proxy URL is configured.  disconnect() at
\* 45 finds wsRef.current null.
HookConnect ==
    /\ IF hookAccessToken = NoToken \/ wsRef # Null
       THEN UNCHANGED <<wsRef, wsState>>
       ELSE /\ NextHookSocket <= MaxHookSockets
            /\ wsState' = [wsState EXCEPT ![NextHookSocket] =
                              HookSocket("CONNECTING", hookAccessToken)]
            /\ wsRef' = NextHookSocket
    /\ UNCHANGED <<hookAccessToken, wsSent, hookTicks, snapshot, arrived, analysis>>

\* disconnect()  useMarketData.ts:28-34; close() leaves a socket that is connecting
\* or open in CLOSING, its 'close' event comes later
HookDisconnect ==
    /\ IF wsRef = Null
       THEN UNCHANGED <<wsRef, wsState>>
       ELSE /\ wsState' = [wsState EXCEPT ![wsRef].readyState =
                              IF @ \in {"CONNECTING", "OPEN"} THEN "CLOSING" ELSE @]
            /\ wsRef' = Null
    /\ UNCHANGED <<hookAccessToken, wsSent, hookTicks, snapshot, arrived, analysis>>

\* ws.onopen  useMarketData.ts:51-61
HookOpen(s) ==
    /\ wsState[s].readyState = "CONNECTING"
    /\ wsState' = [wsState EXCEPT ![s].readyState = "OPEN"]
    /\ hookTicks' = <<>>
    /\ snapshot' = NoSnapshot
    /\ arrived' = 0
    /\ wsSent' = [wsSent EXCEPT ![s] =
                     Append(@, SubMessage(HookInstrument, wsState[s].accessToken))]
    /\ UNCHANGED <<hookAccessToken, wsRef, analysis>>

\* ws.onmessage  useMarketData.ts:63-76; a tick is told apart by its rank among the
\* tick envelopes handled since the latest 'open'
HookMessage(s, kind) ==
    /\ wsState[s].readyState = "OPEN"
    /\ IF kind = "tick"
       THEN /\ arrived < MaxTicks
            /\ hookTicks' = Slice(hookTicks) \o <<arrived + 1>>
            /\ arrived' = arrived + 1
            /\ UNCHANGED snapshot
       ELSE IF kind = "snapshot"
       THEN /\ \E data \in Snapshots : snapshot' = data
            /\ UNCHANGED <<hookTicks, arrived>>
       ELSE UNCHANGED <<hookTicks, arrived, snapshot>>
    /\ UNCHANGED <<hookAccessToken, wsRef, wsState, wsSent, analysis>>

\* ws.onclose  useMarketData.ts:82-85: the connection failed, was closed by the relay,
\* or the close started by close() has completed
HookClose(s) ==
    /\ wsState[s].readyState \in {"CONNECTING", "OPEN", "CLOSING"}
    /\ wsState' = [wsState EXCEPT ![s].readyState = "CLOSED"]
    /\ wsRef' = Null
    /\ UNCHANGED <<hookAccessToken, wsSent, hookTicks, snapshot, arrived, analysis>>

HookNext ==
    \/ \E token \in Tokens \cup {NoToken} : HookRender(token) /\ ServerIdle
    \/ HookConnect /\ ServerIdle
    \/ HookDisconnect /\ ServerIdle
    \/ \E s \in HookSockets : HookOpen(s) /\ ServerIdle
    \/ \E s \in HookSockets, kind \in MessageKinds : HookMessage(s, kind) /\ ServerIdle
    \/ \E s \in HookSockets : HookClose(s) /\ ServerIdle

HookSpec == Init /\ [][HookNext]_vars

\* ---- getGeminiAnalysis alone: a call and the end of the model call it awaits ----
\* geminiService.ts:60
LatestPrice(inputTicks, close) ==
    IF Len(inputTicks) > 0 THEN JsonNumber(inputTicks[Len(inputTicks)].price)
    ELSE JsonNumber(close)

\* !value for the values a member of the response can have
Falsy(value) == value = Undefined \/ value = JsonString("")

\* geminiService.ts:113-119
ErrorSignal(latestPrice) ==
    [signal |-> JsonString("HOLD"), confidence |-> ErrorConfidence,
     target |-> latestPrice, stoploss |-> latestPrice, reason |-> ErrorReason]

\* geminiService.ts:87-120: the promise the call returns, from the end of the
\* awaited model call
Settle(latestPrice, response) ==
    IF response.kind \in FailureKinds
    THEN \* 88, 97, 98 or 100 throws; the catch at 111 returns the fallback
         Fulfilled(ErrorSignal(latestPrice))
    ELSE LET result == response.value IN
         IF Falsy(result.signal) \/ Falsy(result.reason)
         THEN Fulfilled(ErrorSignal(latestPrice))
         ELSE IF result.signal = JsonString("HOLD")
         THEN Fulfilled([result EXCEPT !.target = latestPrice, !.stoploss = latestPrice])
         ELSE Fulfilled(result)

\* getGeminiAnalysis is called: lines 59-95, up to the await
AnalysisStart(inputTicks, close) ==
    /\ analysis.pc # "awaiting"
    /\ analysis' = [pc |-> "awaiting", ticks |-> inputTicks, close |-> close,
                    latestPrice |-> LatestPrice(inputTicks, close),
                    response |-> NoResponse, result |-> NoResult]
    /\ UNCHANGED hookVars

\* the awaited model call ends: lines 97-120
AnalysisSettles(response) ==
    /\ analysis.pc = "awaiting"
    /\ analysis' = [analysis EXCEPT !.pc = "settled", !.response = response,
                                    !.result = Settle(analysis.latestPrice, response)]
    /\ UNCHANGED hookVars

AnalysisNext ==
    \/ \E inputTicks \in InputTicks, close \in ClosePrices :
          AnalysisStart(inputTicks, close) /\ ServerIdle
    \/ \E response \in ModelResponses : AnalysisSettles(response) /\ ServerIdle

AnalysisSpec == Init /\ [][AnalysisNext]_vars

\* ---- helpers of the properties ----
Accepted(e) == e.type = "subscribe" /\ (e.accessToken # NoToken \/ fyersAccessToken # NoToken)
IsBroadcast(e) == (e.type = "upstream.message" /\ e.valid) \/ e.type = "upstream.close"
Closes(s) == readyState[s] = "CLOSING" /\ readyState'[s] = "CLOSED"
Opens(s) == readyState[s] = "CONNECTING" /\ readyState'[s] = "OPEN"

\* C1: at most one upstream socket is connecting, open or closing at any time.
C1_AtMostOneUpstream == Cardinality(NotClosed) <= 1

\* C2: an accepted subscribe handled while Disconnected creates exactly one socket
\* and enters Connecting; one handled while Connecting or Open creates no socket and
\* leaves the handle and every socket as they are; Connecting is entered only from
\* Disconnected.
C2_IdempotentConnect ==
    [][/\ (Accepted(event') /\ ManagerState = "Disconnected") =>
            /\ Cardinality(Created') = Cardinality(Created) + 1
            /\ ManagerState' = "Connecting"
       /\ (Accepted(event') /\ ManagerState \in {"Connecting", "Open"}) =>
            /\ Created' = Created
            /\ fyersWS' = fyersWS
            /\ readyState' = readyState
            /\ socketToken' = socketToken
       /\ (ManagerState' = "Connecting" /\ ManagerState # "Connecting") =>
            ManagerState = "Disconnected"]_vars

\* two subscribes were handled, the second while Connecting, and one socket exists
C2_Witness ==
    /\ event.type = "subscribe"
    /\ ManagerState = "Connecting"
    /\ Len(onceOpen[fyersWS]) = 2
    /\ Cardinality(Created) = 1

\* C3: when an upstream socket opens, the SUB_DATA frame of every subscribe deferred
\* on it is sent exactly once, in order; none is sent while the socket is connecting.
C3_DeferredSentOnceAtOpen ==
    [][\A s \in Sockets :
          /\ Opens(s) =>
                /\ Len(wire') = Len(onceOpen[s])
                /\ \A n \in 1..Len(wire') :
                      wire'[n] = [sock |-> s, T |-> "SUB_DATA",
                                  symbol |-> onceOpen[s][n].instrument]
                /\ onceOpen'[s] = <<>>
          /\ readyState'[s] = "CONNECTING" =>
                \A n \in 1..Len(wire') : wire'[n].sock # s]_vars

\* C4: an unsubscribe handled while the manager is Connecting is queued on the
\* connecting socket, to be sent when it opens.
C4_UnsubscribeQueued ==
    [][(event'.type = "unsubscribe" /\ ManagerState = "Connecting") =>
          Len(onceOpen'[fyersWS]) = Len(onceOpen[fyersWS]) + 1]_vars

\* C5: a tick is sent only to consumers that are subscribed to the tick's instrument
\* when it is broadcast.
C5_TickOnlyToSubscribers ==
    event.type = "upstream.message" =>
        \A c \in Consumers : sent[c] # <<>> => event.instrument \in subs[c]

\* C6: a frame that decodes makes one send() call on every registered consumer, with
\* the envelope {type: "tick", data: <the frame's tick>}.
C6_TickToEveryRegistered ==
    (event.type = "upstream.message" /\ event.valid) =>
        \A c \in clientSockets :
            /\ Len(sent[c]) = 1
            /\ sent[c][1].env = [type |-> "tick", data |-> [ltp |-> event.ltp]]

\* a tick went to two registered consumers
C6_Witness ==
    /\ event.type = "upstream.message"
    /\ event.valid
    /\ Cardinality(clientSockets) = 2
    /\ \A c \in clientSockets : Len(sent[c]) = 1

\* C7: a consumer whose 'close' has been handled is not in the registry, removing it
\* again changes nothing, and no handler makes a send() call on it.
C7_RemovedGetsNothing ==
    \A c \in Consumers :
        clientState[c] = "closed" =>
            /\ c \notin clientSockets
            /\ clientSockets \ {c} = clientSockets
            /\ sent[c] = <<>>

\* a broadcast after consumer 1 was removed reached consumer 2
C7_Witness ==
    /\ clientState[1] = "closed"
    /\ IsBroadcast(event)
    /\ 2 \in clientSockets
    /\ sent[2] # <<>>

\* C8: in a tick or connection-lost broadcast nothing is written to a registered
\* consumer whose transport is closing, and every registered writable consumer is
\* written the envelope exactly once.
C8_UnwritableSkipped ==
    IsBroadcast(event) =>
        \A c \in clientSockets :
            /\ clientState[c] = "closing" =>
                  \A n \in 1..Len(sent[c]) : ~sent[c][n].written
            /\ clientState[c] = "open" =>
                  /\ Len(sent[c]) = 1
                  /\ sent[c][1].written
                  /\ sent[c][1].env = (IF event.type = "upstream.close"
                                       THEN LostEnvelope
                                       ELSE TickEnvelope([ltp |-> event.ltp]))

\* a broadcast met a closing consumer registered before a writable one
C8_Witness ==
    /\ IsBroadcast(event)
    /\ clientSockets = {1, 2}
    /\ clientState[1] = "closing"
    /\ clientState[2] = "open"
    /\ Len(sent[2]) = 1
    /\ sent[2][1].written

\* C9: when the socket the handle points to emits 'close', the handle is cleared, the
\* manager is Disconnected and one send() call with the connection-lost envelope is
\* made on every registered consumer.
C9_CloseDisconnectsAndNotifies ==
    [][\A s \in Sockets :
          (Closes(s) /\ fyersWS = s) =>
              /\ fyersWS' = NoSocket
              /\ ManagerState' = "Disconnected"
              /\ \A c \in clientSockets :
                    /\ Len(sent'[c]) = 1
                    /\ sent'[c][1].env =
                          [type |-> "error", message |-> "Fyers connection lost."]]_vars

\* the only socket ever created has closed and two consumers were notified
C9_Witness ==
    /\ event.type = "upstream.close"
    /\ Created = {1}
    /\ fyersWS = NoSocket
    /\ Cardinality(clientSockets) = 2
    /\ \A c \in clientSockets : Len(sent[c]) = 1

\* the 'close' of socket s has just been handled: handle cleared, manager
\* Disconnected, every registered consumer notified
LostHandled(s) ==
    /\ event.type = "upstream.close"
    /\ event.sock = s
    /\ fyersWS = NoSocket
    /\ ManagerState = "Disconnected"
    /\ \A c \in clientSockets : Len(sent[c]) = 1 /\ sent[c][1].env = LostEnvelope

\* C10: after an upstream socket emits 'error', the manager is Disconnected (a
\* subscribe would open a new socket) until, eventually, the handle is cleared and
\* every registered consumer is sent the connection-lost envelope.
C10_ErrorLeadsToLost ==
    /\ [](\A s \in Sockets : (s \in errored /\ fyersWS = s) => ManagerState = "Disconnected")
    /\ \A s \in Sockets : (s \in errored) ~> LostHandled(s)

\* an errored socket has closed and a registered consumer was notified
C10_Witness ==
    /\ event.type = "upstream.close"
    /\ errored = {}
    /\ fyersWS = NoSocket
    /\ \E c \in clientSockets : Len(sent[c]) = 1 /\ sent[c][1].written
    /\ \E s \in Sockets : readyState[s] = "CLOSED" /\ socketToken[s] # NoToken

\* C11: once the manager is Disconnected it stays Disconnected, and no upstream socket
\* is created, until a subscribe with a usable token is handled; that subscribe
\* creates one new socket, points the handle at it and enters Connecting.
C11_NoReconnectUntilSubscribe ==
    [][/\ Created' # Created => (Accepted(event') /\ ManagerState = "Disconnected")
       /\ (ManagerState = "Disconnected" /\ ~Accepted(event')) =>
             ManagerState' = "Disconnected"
       /\ (ManagerState = "Disconnected" /\ Accepted(event')) =>
             /\ Created' = Created \cup {NextSocket}
             /\ fyersWS' = NextSocket
             /\ readyState'[NextSocket] = "CONNECTING"
             /\ ManagerState' = "Connecting"]_vars

\* the first socket was lost and a later subscribe started the second
C11_Witness ==
    /\ readyState[1] = "CLOSED"
    /\ event.type = "subscribe"
    /\ fyersWS = 2
    /\ readyState[2] = "CONNECTING"

\* C12: nothing is carried from one upstream socket to the next.  A socket is created
\* with no provider subscription and with the creating subscribe as its only deferred
\* one; a subscribe is deferred only on the socket the handle points to when it is
\* handled; a SUB_DATA frame is sent only for the subscribe being handled or, when a
\* socket opens, for the subscribes deferred on that socket; and a socket that is
\* closing or closed keeps no deferred subscribe and is sent no frame.
C12_NoResubscribeAfterLoss ==
    [][/\ \A n \in 1..Len(wire') :
             wire'[n].T = "SUB_DATA" =>
                 \/ /\ event'.type = "subscribe"
                    /\ Len(wire') = 1
                    /\ wire'[n].symbol = event'.instrument
                 \/ /\ event'.type = "upstream.open"
                    /\ Len(wire') = Len(onceOpen[event'.sock])
                    /\ wire'[n].symbol = onceOpen[event'.sock][n].instrument
       /\ \A s \in Sockets :
             /\ (s \notin Created /\ s \in Created') =>
                   /\ upstreamSubs'[s] = {}
                   /\ onceOpen'[s] =
                         <<[consumer |-> event'.consumer, instrument |-> event'.instrument]>>
             /\ Len(onceOpen'[s]) > Len(onceOpen[s]) =>
                   /\ event'.type = "subscribe"
                   /\ fyersWS' = s
                   /\ onceOpen'[s] = Append(onceOpen[s],
                         [consumer |-> event'.consumer, instrument |-> event'.instrument])
             /\ readyState'[s] \in {"CLOSING", "CLOSED"} =>
                   /\ onceOpen'[s] = <<>>
                   /\ \A n \in 1..Len(wire') : wire'[n].sock # s]_vars

\* the second socket opened after the first was lost: one SUB_DATA frame went out, and
\* an instrument a consumer had subscribed to before was not subscribed again
C12_Witness ==
    /\ readyState[1] = "CLOSED"
    /\ event.type = "upstream.open"
    /\ event.sock = 2
    /\ Len(wire) = 1
    /\ wire[1].T = "SUB_DATA"
    /\ \E c \in clientSockets : \E i \in subs[c] : i \notin upstreamSubs[2]

\* C13: a subscribe without a token, handled while no token is stored, makes one
\* send() call on that consumer with an envelope {type: "error", message: ...},
\* creates no upstream socket, sends and defers no subscribe frame and leaves the
\* consumer registered.
C13_NoTokenErrorEnvelope ==
    [][(/\ event'.type = "subscribe"
        /\ event'.accessToken = NoToken
        /\ fyersAccessToken = NoToken) =>
            LET c == event'.consumer IN
            /\ Len(sent'[c]) = 1
            /\ DOMAIN sent'[c][1].env = {"type", "message"}
            /\ sent'[c][1].env.type = "error"
            /\ Created' = Created
            /\ wire' = <<>>
            /\ onceOpen' = onceOpen
            /\ c \in clientSockets']_vars

\* ---- helpers of the login properties ----
FailedResponse(e) == e.type = "login.response" /\ e.outcome # "ok"

\* C14: the run of a login call that handles a failed stage issues no request, answers
\* the caller with status 500 and no access_token, and leaves fyersAccessToken as it
\* was; a failed call has issued no request of a stage after the one that failed.
C14_FailureAborts ==
    /\ FailedResponse(event) =>
          /\ http = <<>>
          /\ reply.call = event.call
          /\ reply.status = 500
          /\ "access_token" \notin DOMAIN reply.body
          /\ fyersAccessToken = event.stored
          /\ login[event.call].pc = "failed"
          /\ login[event.call].failedAt = event.stage
    /\ \A L \in Logins :
          login[L].pc = "failed" =>
              \A n \in 1..Len(login[L].requests) :
                  StageIndex(login[L].requests[n]) <= StageIndex(login[L].failedAt)

\* the second call failed at the PIN stage while the token of the first was stored
C14_Witness ==
    /\ FailedResponse(event)
    /\ event.call = 2
    /\ event.stage = "PIN"
    /\ login[1].pc = "done"
    /\ fyersAccessToken \in Tokens
    /\ login[2].requests = <<"OTP", "TOTP", "PIN">>

\* the body names the stage: in a member of its own, or by the text that only a
\* failure of that stage produces
Identifies(body, stage) ==
    \/ "stage" \in DOMAIN body /\ body.stage = stage
    \/ "error" \in DOMAIN body /\ body.error = DefaultMessage(stage)

\* C15: the response to a login call that failed at a stage identifies that stage.
C15_ErrorNamesStage ==
    FailedResponse(event) => Identifies(reply.body, event.stage)

\* C16: a login call issues the request of each stage at most once, and a call that
\* arrives later starts with the request of stage OTP, which carries no request key,
\* whatever happened to the calls before it.
C16_EachStageOnce ==
    /\ \A L \in Logins :
          \A m, n \in 1..Len(login[L].requests) :
              login[L].requests[m] = login[L].requests[n] => m = n
    /\ (event.type = "login.start" /\ reply = NoReply) =>
          /\ http = <<[call |-> event.call, stage |-> "OTP", request_key |-> NoKey]>>
          /\ login[event.call].pc = "OTP"
          /\ login[event.call].key = NoKey
          /\ login[event.call].requests = <<"OTP">>

\* the first call failed at the PIN stage after three requests, and the second call
\* has just issued its OTP request
C16_Witness ==
    /\ login[1].pc = "failed"
    /\ login[1].failedAt = "PIN"
    /\ login[1].requests = <<"OTP", "TOTP", "PIN">>
    /\ event.type = "login.start"
    /\ event.call = 2
    /\ Len(http) = 1

\* C17: a call issues its requests in the order OTP, TOTP, PIN, TOKEN.  The OTP request
\* is issued when the call arrives and carries no key; the request of any other stage
\* is issued by the run that handles the successful response of the stage before it,
\* in the same call, and carries the request key of that response.  An access token is
\* returned, and stored, only by the run that handles the successful response of
\* stage TOKEN, after all four requests of the call.
C17_StagesInOrder ==
    /\ \A n \in 1..Len(http) :
          \/ /\ http[n].stage = "OTP"
             /\ event.type = "login.start"
             /\ event.call = http[n].call
             /\ http[n].request_key = NoKey
          \/ /\ event.type = "login.response"
             /\ event.call = http[n].call
             /\ event.outcome = "ok"
             /\ StageIndex(http[n].stage) = StageIndex(event.stage) + 1
             /\ http[n].request_key = event.key
             /\ http[n].request_key \in Keys
    /\ \A L \in Logins :
          \A n \in 1..Len(login[L].requests) : login[L].requests[n] = Stages[n]
    /\ "access_token" \in DOMAIN reply.body =>
          /\ event.type = "login.response"
          /\ event.call = reply.call
          /\ event.stage = "TOKEN"
          /\ event.outcome = "ok"
          /\ login[reply.call].requests = Stages
          /\ reply.body.access_token \in Tokens
    /\ fyersAccessToken # NoToken => \E L \in Logins : login[L].pc = "done"

\* two calls are in flight with different keys: the PIN request of the second carries
\* the key of its own TOTP response, not the key the first call holds
C17_Witness ==
    /\ event.type = "login.response"
    /\ event.call = 2
    /\ event.stage = "TOTP"
    /\ event.key = "rk2"
    /\ login[1].pc = "PIN"
    /\ login[1].key = "rk1"
    /\ http = <<[call |-> 2, stage |-> "PIN", request_key |-> "rk2"]>>

\* C18: the handler of an upstream frame that does not decode makes no send() call on
\* any consumer and sends nothing upstream; it leaves the handle, every socket, the
\* manager state and the registry as they were, and the socket open, so that the next
\* frame of a subscribed instrument on it is still handled.
C18_BadFrameDropped ==
    /\ [][(event'.type = "upstream.message" /\ ~event'.valid) =>
             /\ sent' = NothingSent
             /\ wire' = <<>>
             /\ UNCHANGED <<fyersWS, socketVars, registryVars, upstreamSubs>>
             /\ readyState'[event'.sock] = "OPEN"
             /\ ManagerState' = ManagerState]_vars
    /\ []((event.type = "upstream.message" /\ ~event.valid) =>
             \A i \in upstreamSubs[event.sock] :
                 ENABLED UpstreamMessage(event.sock, TRUE, 512, i))

\* a frame that did not decode arrived on an open socket with a provider subscription
\* while two consumers were registered, and nothing was sent
C18_Witness ==
    /\ event.type = "upstream.message"
    /\ ~event.valid
    /\ fyersWS = event.sock
    /\ upstreamSubs[event.sock] # {}
    /\ Cardinality(clientSockets) = 2
    /\ sent = NothingSent

\* C19: the handler of a consumer message that is not JSON, or whose type is neither
\* subscribe nor unsubscribe, makes no send() call on any consumer and sends nothing
\* upstream; the sender stays open and registered, and the handle, every upstream
\* socket, the registry and the stored token stay as they were.
C19_BadCommandIgnored ==
    [][event'.type \in IgnoredKinds =>
          /\ sent' = NothingSent
          /\ wire' = <<>>
          /\ UNCHANGED <<fyersWS, socketVars, registryVars, upstreamSubs, fyersAccessToken>>
          /\ event'.consumer \in clientSockets'
          /\ clientState'[event'.consumer] = "open"
          /\ ManagerState' = ManagerState]_vars

\* a subscribed consumer sent a message that is not JSON while the upstream socket
\* was open
C19_Witness ==
    /\ event.type = "invalid.json"
    /\ ManagerState = "Open"
    /\ subs[event.consumer] # {}
    /\ event.consumer \in clientSockets
    /\ sent = NothingSent

\* a is b with some elements left out
RECURSIVE IsSubseq(_, _)
IsSubseq(a, b) ==
    IF a = <<>> THEN TRUE
    ELSE IF b = <<>> THEN FALSE
    ELSE IF Head(a) = Head(b) THEN IsSubseq(Tail(a), Tail(b))
    ELSE IsSubseq(a, Tail(b))

IsDecoded(frame) == frame.valid

\* the ticks of the frames received so far that decode, in the order of arrival
ReceivedTicks ==
    LET frames == SelectSeq(received, IsDecoded) IN
    [n \in 1..Len(frames) |-> frames[n].tick]

\* C20: for every consumer, the ticks of the tick envelopes sent to it so far are, in
\* the same order, a subsequence of the ticks of the frames received so far; one
\* handler run sends a consumer at most one tick envelope.
C20_TicksInOrder ==
    \A c \in Consumers :
        /\ IsSubseq(delivered[c], ReceivedTicks)
        /\ Len(TicksOf(sent[c])) <= 1

\* two different ticks arrived; consumer 1 was sent both in order, and consumer 2,
\* registered in between, only the second
C20_Witness ==
    /\ ReceivedTicks = <<[ltp |-> 512], [ltp |-> 513]>>
    /\ delivered[1] = <<[ltp |-> 512], [ltp |-> 513]>>
    /\ delivered[2] = <<[ltp |-> 513]>>

\* C21: a socket created by a subscribe handled while Disconnected is opened with the
\* token of that subscribe; and a frame that encodes {timestamp, ltp, volume} is sent
\* to every registered consumer as {type: "tick", data: {timestamp, ltp, volume}}
\* with the same three values, as JSON numbers.
C21_EndToEndTick ==
    /\ (event.type = "subscribe" /\ event.accessToken # NoToken /\ fyersWS # NoSocket
            /\ onceOpen[fyersWS] = <<[consumer |-> event.consumer,
                                      instrument |-> event.instrument]>>) =>
          socketToken[fyersWS] = event.accessToken
    /\ event.type = "upstream.frame" =>
          \A c \in clientSockets :
              /\ Len(sent[c]) = 1
              /\ sent[c][1].env =
                    [type |-> "tick",
                     data |-> [f \in Fields |-> JsonNumber(Meaning(event.frame)[f])]]

\* C22: a process started without the application id or the application secret
\* accepts no consumer, answers no control-plane request and creates no upstream
\* socket.
C22_RefusesToStart ==
    ~(config.appId /\ config.secretKey) =>
        /\ clientSockets = {}
        /\ \A c \in Consumers : clientState[c] = "new"
        /\ reply = NoReply
        /\ Created = {}

\* the runs of the control-plane handlers
ControlPlane == {"login.start", "login.response", "exchange.start", "exchange.response"}

\* C23: a run of the direct login or of the code exchange handler, whether it succeeds
\* or fails, leaves the handle, every upstream socket with its deferred subscribes, the
\* provider's subscriptions and the registry as they were, and sends nothing upstream
\* or to a consumer.
C23_ControlPlaneApart ==
    [][event'.type \in ControlPlane =>
          /\ UNCHANGED <<fyersWS, socketVars, registryVars, upstreamSubs>>
          /\ ManagerState' = ManagerState
          /\ sent' = NothingSent
          /\ wire' = <<>>]_vars

\* a login stored its token while an upstream socket was connecting with a deferred
\* subscribe and a consumer was registered
C23_Witness ==
    /\ event.type \in {"login.response", "exchange.response"}
    /\ event.outcome = "ok"
    /\ fyersAccessToken \in Tokens
    /\ event.stored = NoToken
    /\ ManagerState = "Connecting"
    /\ Len(onceOpen[fyersWS]) >= 1
    /\ clientSockets # {}

\* the token a subscribe event selects
Selected(e) == IF e.accessToken # NoToken THEN e.accessToken ELSE fyersAccessToken

\* the subscribe just handled created the socket the handle points to
CreatedBy(e) ==
    /\ e.type = "subscribe"
    /\ Selected(e) # NoToken
    /\ fyersWS # NoSocket
    /\ readyState[fyersWS] = "CONNECTING"
    /\ onceOpen[fyersWS] = <<[consumer |-> e.consumer, instrument |-> e.instrument]>>

\* C24: a subscribe selects the token it carries, or else the stored token; it is
\* refused only when both are absent, so one without a token is accepted once a login
\* has succeeded; a token is stored exactly when a login has succeeded; and the socket
\* a subscribe creates is opened with the token that subscribe selected.
C24_TokenSelection ==
    /\ event.type = "subscribe" =>
          IF Selected(event) = NoToken
          THEN /\ sent[event.consumer] = <<SendCall(event.consumer, NoTokenEnvelope)>>
               /\ wire = <<>>
          ELSE /\ sent = NothingSent
               /\ event.instrument \in subs[event.consumer]
               /\ fyersWS # NoSocket
    /\ CreatedBy(event) => socketToken[fyersWS] = Selected(event)
    /\ fyersAccessToken # NoToken <=> \E L \in Logins : login[L].pc = "done"
    /\ \A s \in Created : socketToken[s] # NoToken

\* after a login had stored tok123, a subscribe without a token opened the socket
\* with tok123
C24_Witness ==
    /\ CreatedBy(event)
    /\ event.accessToken = NoToken
    /\ fyersAccessToken = "tok123"
    /\ socketToken[fyersWS] = "tok123"

\* C25: the handling of an accepted subscribe for I that ends with the manager Open
\* has sent exactly one frame, SUB_DATA naming I, and that of an unsubscribe for I
\* exactly one frame, UNSUB_DATA naming I, on the socket of the handle; a handler run
\* that sent any control frame ends with the manager Open and sent it on the socket of
\* the handle.
C25_ControlFramesWhileOpen ==
    /\ (Accepted(event) /\ ManagerState = "Open") =>
          wire = <<[sock |-> fyersWS, T |-> "SUB_DATA", symbol |-> event.instrument]>>
    /\ (event.type = "unsubscribe" /\ ManagerState = "Open") =>
          wire = <<[sock |-> fyersWS, T |-> "UNSUB_DATA", symbol |-> event.instrument]>>
    /\ wire # <<>> =>
          /\ ManagerState = "Open"
          /\ \A n \in 1..Len(wire) : wire[n].sock = fyersWS

\* an unsubscribe handled while Open sent its one frame
C25_Witness ==
    /\ event.type = "unsubscribe"
    /\ ManagerState = "Open"
    /\ wire = <<[sock |-> fyersWS, T |-> "UNSUB_DATA", symbol |-> event.instrument]>>
    /\ upstreamSubs[fyersWS] # {}

\* C26: a direct login call whose body lacks the account id, the PIN or the TOTP seed
\* is answered with status 400 and an error body by the run that receives it; that
\* run issues no request and leaves fyersAccessToken as it was, and the call never
\* issues a request.
C26_IncompleteLoginRejected ==
    /\ (event.type = "login.start" /\ event.outcome = "incomplete") =>
          /\ reply.call = event.call
          /\ reply.status = 400
          /\ DOMAIN reply.body = {"error"}
          /\ http = <<>>
          /\ fyersAccessToken = event.stored
          /\ login[event.call].pc = "rejected"
    /\ \A L \in Logins : login[L].pc = "rejected" => login[L].requests = <<>>

\* the second call came without a field while the token of the first was stored
C26_Witness ==
    /\ event.type = "login.start"
    /\ event.outcome = "incomplete"
    /\ event.call = 2
    /\ login[1].pc = "done"
    /\ fyersAccessToken \in Tokens
    /\ reply.status = 400

\* C27: the 'close' of a socket the handle no longer points to leaves the handle on
\* the newer socket.
C27_StaleCloseKeepsHandle ==
    [][\A s \in Sockets :
          (Closes(s) /\ fyersWS # NoSocket /\ fyersWS # s) => fyersWS' = fyersWS]_vars

\* C28: an unsubscribe for an instrument that another registered consumer has
\* subscribed to, and not unsubscribed from, sends no UNSUB_DATA frame upstream.
C28_SharedInstrumentKept ==
    (/\ event.type = "unsubscribe"
     /\ ManagerState = "Open"
     /\ \E d \in clientSockets \ {event.consumer} : event.instrument \in subs[d]) =>
        wire = <<>>

\* C29: when the socket of the handle opens and the deferred subscribes have run, the
\* provider is not subscribed on it to an instrument whose deferred subscriber is
\* still registered and has unsubscribed since, if no consumer holds the instrument.
C29_DeferredOrderKept ==
    [][\A s \in Sockets :
          (Opens(s) /\ fyersWS = s) =>
              \A n \in 1..Len(onceOpen[s]) :
                  (/\ onceOpen[s][n].consumer \in clientSockets
                   /\ \A c \in Consumers : onceOpen[s][n].instrument \notin subs[c]) =>
                      onceOpen[s][n].instrument \notin upstreamSubs'[s]]_vars

\* C30: when the socket of the handle opens, every SUB_DATA frame sent is for a
\* deferred subscribe of a consumer that is still registered.
C30_DepartedNotSubscribed ==
    [][\A s \in Sockets :
          (Opens(s) /\ fyersWS = s) =>
              \A n \in 1..Len(wire') :
                  wire'[n].T = "SUB_DATA" =>
                      \E k \in 1..Len(onceOpen[s]) :
                          /\ onceOpen[s][k].instrument = wire'[n].symbol
                          /\ onceOpen[s][k].consumer \in clientSockets]_vars

\* C31: the 'close' of a consumer removes that consumer from the registry and leaves
\* the socket handle, the state, token and deferred subscribes of every upstream
\* socket, the stored token and the instruments subscribed upstream as they were, and
\* sends nothing, upstream or downstream, also when the registry becomes empty.
C31_DisconnectOnlyRegistry ==
    [][\A c \in Consumers :
          (c \in clientSockets /\ clientState'[c] = "closed") =>
              /\ clientSockets' = clientSockets \ {c}
              /\ UNCHANGED <<fyersWS, readyState, socketToken, onceOpen,
                             fyersAccessToken, upstreamSubs>>
              /\ wire' = <<>>
              /\ sent' = NothingSent]_vars

\* the last consumer has left while the upstream socket is open with an instrument
\* subscribed and a token is stored
C31_Witness ==
    /\ event.type = "consumer.close"
    /\ clientSockets = {}
    /\ IsOpen(fyersWS, readyState)
    /\ upstreamSubs[fyersWS] # {}
    /\ fyersAccessToken # NoToken

\* C32: the token of a connecting or open upstream socket never changes; a subscribe
\* that carries another token than the one the socket of the handle was opened with,
\* handled while that socket is connecting or open, leaves the handle and the state
\* and token of every socket as they were, and its instrument goes to that socket:
\* as one SUB_DATA frame when it is open, as a deferred subscribe when it is connecting.
C32_LiveTokenFixed ==
    [][/\ \A s \in Sockets :
             readyState[s] \in {"CONNECTING", "OPEN"} => socketToken'[s] = socketToken[s]
       /\ (/\ event'.type = "subscribe"
           /\ fyersWS # NoSocket
           /\ readyState[fyersWS] \in {"CONNECTING", "OPEN"}
           /\ event'.accessToken \notin {NoToken, socketToken[fyersWS]}) =>
              /\ UNCHANGED <<fyersWS, readyState, socketToken>>
              /\ event'.instrument \in subs'[event'.consumer]
              /\ IF readyState[fyersWS] = "OPEN"
                 THEN /\ wire' = <<SubFrame(fyersWS, event'.instrument)>>
                      /\ UNCHANGED onceOpen
                 ELSE /\ wire' = <<>>
                      /\ onceOpen' = [onceOpen EXCEPT ![fyersWS] =
                             Append(@, [consumer |-> event'.consumer,
                                        instrument |-> event'.instrument])]]_vars

\* a subscribe carrying tok456 was forwarded on the open socket created with tok123
C32_Witness ==
    /\ event.type = "subscribe"
    /\ event.accessToken = "tok456"
    /\ IsOpen(fyersWS, readyState)
    /\ socketToken[fyersWS] = "tok123"
    /\ wire = <<SubFrame(fyersWS, event.instrument)>>

\* a subscribe of consumer c for instrument i that was accepted has just been handled
SubscribeHandled(c, i) ==
    /\ Accepted(event)
    /\ event.consumer = c
    /\ event.instrument = i

\* the latest handler run sent SUB_DATA for instrument i upstream, or sent consumer c
\* an error envelope
Answered(c, i) ==
    \/ \E n \in 1..Len(wire) : wire[n].T = "SUB_DATA" /\ wire[n].symbol = i
    \/ \E n \in 1..Len(sent[c]) : sent[c][n].written /\ sent[c][n].env = LostEnvelope

\* C33: when every connection attempt ends, an accepted subscribe of a consumer for an
\* instrument is followed by the consumer's departure, by a SUB_DATA frame for the
\* instrument, or by an error envelope written to the consumer.
C33_SubscribeAnswered ==
    \A c \in Consumers, i \in Instruments :
        SubscribeHandled(c, i) ~> (clientState[c] # "open" \/ Answered(c, i))

\* a socket has closed while none is open, and a connected consumer that holds a
\* subscription was written the connection-lost envelope
C33_Witness ==
    /\ event.type = "upstream.close"
    /\ \A s \in Sockets : readyState[s] # "OPEN"
    /\ upstreamSubs = [s \in Sockets |-> {}]
    /\ \E c \in clientSockets : /\ subs[c] # {}
                                /\ clientState[c] = "open"
                                /\ Answered(c, "NSE:SBIN-EQ")

\* C34: at most one socket the hook created is connecting or open.
C34_AtMostOneRelaySocket ==
    Cardinality({s \in HookSockets : wsState[s].readyState \in {"CONNECTING", "OPEN"}}) <= 1

\* the most the buffer holds: the 199 ticks slice keeps and the new one
Capacity == Kept + 1

\* C35: the tick buffer never holds more than 200 ticks, and it holds the latest
\* min(n, 200) of the n ticks handled since the latest 'open', in the order they
\* arrived; so a message that is no tick envelope leaves it as it was.
C35_BufferHoldsLatest ==
    LET held == IF arrived < Capacity THEN arrived ELSE Capacity IN
    /\ Len(hookTicks) <= Capacity
    /\ Len(hookTicks) = held
    /\ \A j \in 1..held : hookTicks[j] = arrived - held + j

\* more than 200 ticks have arrived since the 'open' and the oldest were dropped
C35_Witness ==
    /\ arrived > Capacity
    /\ Len(hookTicks) = Capacity
    /\ hookTicks[1] = arrived - Kept
    /\ snapshot # NoSnapshot

\* a signal record: one of the three signals, with a confidence, a target, a
\* stop-loss and a reason  types.ts:28-34
IsSignal(value) ==
    /\ value.signal \in {JsonString(x) : x \in Signals}
    /\ \A member \in {"confidence", "target", "stoploss", "reason"} :
          value[member] # Undefined

\* the model call failed, or what it returned is not a signal record
Failed(response) == response.kind # "object" \/ ~IsSignal(response.value)

\* C36: a call that has settled is fulfilled with a signal record; a HOLD has the
\* latest price as its target and as its stop-loss; and when the model call failed
\* or did not return a signal record, the result is HOLD with confidence 0.5.
C36_AlwaysASignal ==
    analysis.pc = "settled" =>
        LET value == analysis.result.value IN
        /\ analysis.result.state = "fulfilled"
        /\ IsSignal(value)
        /\ value.signal = JsonString("HOLD") =>
              value.target = analysis.latestPrice /\ value.stoploss = analysis.latestPrice
        /\ Failed(analysis.response) =>
              value.signal = JsonString("HOLD") /\ value.confidence = ErrorConfidence

====
